---- MODULE Spec2Model ----
(***************************************************************************)
(* Model of the two PostgreSQL MCP servers of the repository:              *)
(*   - query_tool.py : a hand-written JSON-RPC loop over stdin/stdout      *)
(*                     (main, the handle_* functions, query_db);           *)
(*   - mcp_server2.py: the FastMCP server's query executor execute_query.  *)
(*                                                                         *)
(* Python values are records tagged by the field t:                        *)
(*   None  [t |-> "null"]          int   [t |-> "num", v |-> <<digits>>]   *)
(*   str   [t |-> "str", v |-> <<tokens>>]   dict [t |-> "obj", f |-> rec] *)
(*   list  [t |-> "list", items |-> <<...>>]                               *)
(* A string is a sequence of tokens; the token " " is a run of whitespace  *)
(* and every other token is a run of non-blank characters.                 *)
(***************************************************************************)
EXTENDS Integers, Sequences, FiniteSets, TLC

\* query_tool.py, main():
\*   pc         "loop" while main() is in its while loop, "done" after the
\*              break at end of input, "crashed" when an exception left main()
\*   req        the local variable req
\*   out        the frames written to standard output, in order
\*   openConns  connections opened by query_db and not closed
\*   nread      number of readline() calls made
\* history of the last iteration:
\*   line, prevKind  the line it read and the kind of the line before it
\*   mark       Len(out) when it began
\*   exc        the exception raised in its try block, if any
\*   called, drvUsed, qres  whether query_db was called, with which driver
\*              outcome, and what it returned
\*   hist       the frames each iteration printed, in the order the lines
\*              were read
\* direct calls of the executors:
\*   xcall      the last call and its result
\* mcp_server2.py, the running server:
\*   sphase     "off", "init" before initialize_database, then "serving", or
\*              "failed" when the pool could not be created
\*   catalog    the schema of the database
\*   schema_cache  the global schema_cache
\*   snapshot   schema_cache as initialize_database left it
\*   pool       for each connection of db_pool, the task holding it (0 when
\*              free) and the statement it is running
\*   tasks      for each concurrent tool call, its position, its arguments,
\*              the connection it acquired and its result
VARIABLES pc, req, out, openConns, nread, line, prevKind, mark, exc, called,
          drvUsed, qres, hist, xcall,
          sphase, catalog, schema_cache, snapshot, pool, tasks

srvVars == <<sphase, catalog, schema_cache, snapshot, pool, tasks>>

vars == <<pc, req, out, openConns, nread, line, prevKind, mark, exc, called,
          drvUsed, qres, hist, xcall,
          sphase, catalog, schema_cache, snapshot, pool, tasks>>

loopVars == <<pc, req, out, openConns, nread, line, prevKind, mark, exc,
              called, drvUsed, qres, hist>>

(***************************************************************************)
(* Bounds of the model.                                                    *)
(***************************************************************************)
\* number of input lines read from stdin in one run
MaxLines == 2
\* longest SQL text, in tokens, handed directly to the two query executors
MaxSqlLen == 3
\* number of tool calls in flight at once in mcp_server2.py
NTasks == 3
\* number of connections of the pool (max_size, line 52, scaled down so that
\* the calls outnumber the connections)
PoolSize == 2

(***************************************************************************)
(* Python values.                                                          *)
(***************************************************************************)
Null == [t |-> "null"]
Num(d) == [t |-> "num", v |-> d]
Str(s) == [t |-> "str", v |-> s]
Obj(f) == [t |-> "obj", f |-> f]
List(s) == [t |-> "list", items |-> s]
EmptyObj == Obj(<<>>)
\* the local variable req of main() before its first assignment
Unbound == [t |-> "unbound"]
\* a datetime value returned by the database driver
DateTime == [t |-> "datetime", v |-> <<"2020-01-01", "00:00:00">>]

IsDict(v) == v.t = "obj"
Has(d, k) == k \in DOMAIN d.f
\* dict.get(k, dflt)
Get(d, k, dflt) == IF k \in DOMAIN d.f THEN d.f[k] ELSE dflt
\* Python truthiness of a value (the test "not sql")
Truthy(v) ==
  CASE v.t = "null" -> FALSE
    [] v.t = "str" -> Len(v.v) > 0
    [] v.t = "num" -> v.v # <<"0">>
    [] v.t = "obj" -> DOMAIN v.f # {}
    [] v.t = "list" -> Len(v.items) > 0
    [] OTHER -> TRUE

\* outcome of a Python call: a returned value or a raised exception
Ret(v) == [st |-> "ret", v |-> v]
Raise(type, text) == [st |-> "raise", type |-> type, text |-> text]

(***************************************************************************)
(* JSON-RPC error codes used by query_tool.py.                             *)
(***************************************************************************)
ParseError == -32700
MethodNotFound == -32601
InvalidParams == -32602
InternalError == -32603
DatabaseError == -32001

(***************************************************************************)
(* String operations on token sequences.                                   *)
(***************************************************************************)
\* str.lower() on one token
LowerTok(k) ==
  CASE k = "SELECT" -> "select"
    [] k = "With" -> "with"
    [] OTHER -> k

\* str.lower()
Lower(s) == [i \in 1..Len(s) |-> LowerTok(s[i])]

RECURSIVE LStrip(_)
LStrip(s) == IF s # <<>> /\ Head(s) = " " THEN LStrip(Tail(s)) ELSE s

RECURSIVE RStrip(_)
RStrip(s) ==
  IF s # <<>> /\ s[Len(s)] = " " THEN RStrip(SubSeq(s, 1, Len(s) - 1)) ELSE s

\* str.strip()
Strip(s) == RStrip(LStrip(s))

\* str.startswith(kw) for a one-token keyword
StartsWith(s, kw) == s # <<>> /\ Head(s) = kw

(***************************************************************************)
(* query_tool.py: the database driver (psycopg2) as seen by query_db.      *)
(* A driver outcome says which driver call raises, if any, and what the    *)
(* statement returns.                                                      *)
(***************************************************************************)
DriverErr == <<"driver", "error">>
DriverRows == { <<>>, <<[c |-> Num(<<"1">>)]>> }
Drivers ==
  [fail : {"connect", "execute", "finish"}, rows : {<<>>}]
    \cup [fail : {"none"}, rows : DriverRows]

\* sql.strip().lower().startswith("select") in query_db
IsSelect(sql) == StartsWith(Lower(Strip(sql)), "select")

\* result of query_db: the returned dict, the number of connections it leaves
\* open, and whether the statement ran to the end (fetched or committed)
QOut(res, leak, ran) == [res |-> res, leak |-> leak, ran |-> ran]
\* variant: the except clause reports a fixed text instead of str(e)
QError_NoText(text) == Obj([error |-> Str(<<"Query failed">>)])
QError(text) == Obj([error |-> Str(text)])
QResult(v) == Obj([result |-> v])
StatusOk == Obj([status |-> Str(<<"Query executed successfully">>)])

query_db(sql, drv) ==
  IF sql.t \notin {"str", "list"}
    \* sql[:100] raises TypeError inside the try block, before connect
    THEN QOut(QError(<<"TypeError">>), 0, FALSE)
  ELSE IF drv.fail = "connect"
    THEN QOut(QError(DriverErr), 0, FALSE)
  ELSE IF sql.t = "list"
    \* cur.execute rejects a statement that is not a string
    THEN QOut(QError(<<"TypeError">>), 1, FALSE)
  ELSE IF drv.fail = "execute"
    \* conn was opened; the except clause returns without closing it
    THEN QOut(QError(DriverErr), 1, FALSE)
  ELSE IF IsSelect(sql.v)
    THEN IF drv.fail = "finish"
           THEN QOut(QError(DriverErr), 1, FALSE)
           ELSE QOut(QResult(List(drv.rows)), 0, TRUE)
  ELSE IF drv.fail = "finish"
    THEN QOut(QError(DriverErr), 1, FALSE)
    ELSE QOut(QResult(StatusOk), 0, TRUE)
NoQuery == [res |-> Null, leak |-> 0, ran |-> FALSE]
NoDriver == [fail |-> "unused", rows |-> <<>>]

(***************************************************************************)
(* query_tool.py: response frames and request handlers.                    *)
(***************************************************************************)
ResultFrame(id, result) == [jsonrpc |-> "2.0", id |-> id, result |-> result]
ErrorFrame(id, code, text, arg) ==
  [jsonrpc |-> "2.0", id |-> id,
   error |-> [code |-> code, message |-> [text |-> text, arg |-> arg]]]

\* json.dumps(value, indent=2, default=str): the text of the value, with
\* values json cannot encode replaced by their str()
DumpsValue(v) == IF v.t = "datetime" THEN Str(v.v) ELSE v
DumpsRow(r) == [k \in DOMAIN r |-> DumpsValue(r[k])]
Dumps(v) ==
  IF v.t = "list"
    THEN [t |-> "text",
          json |-> List([i \in 1..Len(v.items) |-> DumpsRow(v.items[i])])]
    ELSE [t |-> "text", json |-> v]

\* outcome of a handler: what it returns or raises, and what it did to the
\* database on the way
HOut(o, q, didCall) == [o |-> o, q |-> q, called |-> didCall]
KeyErrorId == Raise("KeyError", <<"'id'">>)
NoGet == Raise("AttributeError", <<"object has no attribute 'get'">>)

InitializeResult ==
  [protocolVersion |-> "2024-11-05",
   capabilities |-> [tools |-> EmptyObj],
   serverInfo |-> [name |-> "postgres-query-server", version |-> "1.0.0"]]

handle_initialize(r) ==
  IF Has(r, "id") THEN Ret(ResultFrame(r.f.id, InitializeResult))
  ELSE KeyErrorId

ToolName == Str(<<"query_database">>)
ToolsListResult ==
  [tools |-> << [name |-> ToolName, required |-> <<"sql">>] >>]

handle_tools_list(r) ==
  IF Has(r, "id") THEN Ret(ResultFrame(r.f.id, ToolsListResult))
  ELSE KeyErrorId

\* variant: the result is attached even when query_db reported an error
ToolResponse_Both(r, q) ==
  IF ~Has(r, "id") THEN KeyErrorId
  ELSE IF Has(q.res, "error")
    THEN Ret([jsonrpc |-> "2.0", id |-> r.f.id,
              error |-> [code |-> DatabaseError,
                         message |-> [text |-> "Database error: ",
                                      arg |-> q.res.f.error]],
              result |-> [content |-> <<>>]])
    ELSE Ret(ResultFrame(r.f.id,
               [content |-> << [type |-> "text",
                                text |-> Dumps(q.res.f.result)] >>]))

\* the response built after query_db has returned (lines 126-146)
ToolResponse(r, q) ==
  IF ~Has(r, "id") THEN KeyErrorId
  ELSE IF Has(q.res, "error")
    THEN Ret(ErrorFrame(r.f.id, DatabaseError, "Database error: ",
                        q.res.f.error))
    ELSE Ret(ResultFrame(r.f.id,
               [content |-> << [type |-> "text",
                                text |-> Dumps(q.res.f.result)] >>]))

handle_tools_call(r, drv) ==
  LET params == Get(r, "params", EmptyObj) IN
  IF ~IsDict(params) THEN HOut(NoGet, NoQuery, FALSE)
  ELSE
    LET tool_name == Get(params, "name", Null)
        arguments == Get(params, "arguments", EmptyObj)
    IN
    IF tool_name # ToolName
      THEN HOut(IF Has(r, "id")
                  THEN Ret(ErrorFrame(r.f.id, InvalidParams,
                                      "Unknown tool: ", tool_name))
                  ELSE KeyErrorId,
                NoQuery, FALSE)
    ELSE IF ~IsDict(arguments) THEN HOut(NoGet, NoQuery, FALSE)
    ELSE
      LET sql == Get(arguments, "sql", Str(<<>>)) IN
      IF ~Truthy(sql)
        THEN HOut(IF Has(r, "id")
                    THEN Ret(ErrorFrame(r.f.id, InvalidParams,
                               "Missing required parameter: sql", Null))
                    ELSE KeyErrorId,
                  NoQuery, FALSE)
        ELSE LET q == query_db(sql, drv) IN HOut(ToolResponse(r, q), q, TRUE)

handle_resources_list(r) ==
  IF Has(r, "id") THEN Ret(ResultFrame(r.f.id, [resources |-> <<>>]))
  ELSE KeyErrorId

handle_prompts_list(r) ==
  IF Has(r, "id") THEN Ret(ResultFrame(r.f.id, [prompts |-> <<>>]))
  ELSE KeyErrorId

\* variant: the test on the id is inverted
send_error_response_Inverted(r, code, text, arg) ==
  IF Has(r, "id") /\ r.f.id # Null
    THEN <<>>
    ELSE << ErrorFrame(Null, code, text, arg) >>

\* the frames send_error_response prints
send_error_response(r, code, text, arg) ==
  IF Has(r, "id") /\ r.f.id # Null
    THEN << ErrorFrame(r.f.id, code, text, arg) >>
    ELSE <<>>

(***************************************************************************)
(* query_tool.py: the input lines of main().                               *)
(*   eof        readline() returns ""                                      *)
(*   blank      the line is empty after strip()                            *)
(*   readfault  readline() raises (bytes the stream decoder rejects)       *)
(*   badjson    json.loads raises JSONDecodeError                          *)
(*   parsefault json.loads raises another exception (RecursionError on a   *)
(*              deeply nested value, ValueError on an oversized integer)   *)
(*   json       json.loads returns val                                     *)
(***************************************************************************)
Ids == { Null, Num(<<"1">>), Str(<<"1">>) }
OtherMethods ==
  { Str(<<"initialize">>), Str(<<"tools/list">>), Str(<<"resources/list">>),
    Str(<<"prompts/list">>), Str(<<"foo">>) }
ToolsCall == Str(<<"tools/call">>)
SqlSamples == { Str(<<" ", "SELECT", "1">>), Str(<<"insert", "1">>) }
SqlArgs == { Str(<<>>), Num(<<"5">>) } \cup SqlSamples
ArgumentsValues ==
  { Null, EmptyObj } \cup { Obj([sql |-> a]) : a \in SqlArgs }
Names == { ToolName, Str(<<"other">>) }
ParamsValues ==
  { Null, EmptyObj }
    \cup { Obj([name |-> n]) : n \in Names }
    \cup { Obj([arguments |-> a]) : a \in ArgumentsValues }
    \cup { Obj([name |-> n, arguments |-> a]) :
             n \in Names, a \in ArgumentsValues }

\* the request objects without an id field
Notifications ==
  { EmptyObj }
    \cup { Obj([method |-> m]) : m \in OtherMethods \cup {ToolsCall} }
    \cup { Obj([method |-> ToolsCall, params |-> p]) : p \in ParamsValues }

WithId(o, id) == Obj([k \in DOMAIN o.f \cup {"id"} |->
                        IF k = "id" THEN id ELSE o.f[k]])

Requests == Notifications \cup { WithId(o, id) : o \in Notifications, id \in Ids }

\* JSON values that are not objects
NonObjects == { Null, Num(<<"5">>), List(<<>>) }

JsonLine(v) == [kind |-> "json", val |-> v]
Lines ==
  { [kind |-> k] : k \in {"eof", "blank", "readfault", "badjson", "parsefault"} }
    \cup { JsonLine(v) : v \in Requests \cup NonObjects }
NoLine == [kind |-> "none"]

(***************************************************************************)
(* query_tool.py: one iteration of the loop of main().                     *)
(***************************************************************************)
ParseErrorFrame == ErrorFrame(Null, ParseError, "Parse error", Null)

\* outcome of the try block: how control leaves it, the value of req
\* afterwards, the frames printed inside it, and the database effects
TOut(st, r, frames, e, q, didCall) ==
  [st |-> st, req |-> r, frames |-> frames, exc |-> e, q |-> q,
   called |-> didCall]
NoExc == [st |-> "none"]

\* dispatch on the method name (lines 177-204)
Dispatch(r, drv) ==
  LET method == Get(r, "method", Null) IN
  CASE method = Str(<<"initialize">>) ->
         HOut(handle_initialize(r), NoQuery, FALSE)
    [] method = Str(<<"tools/list">>) ->
         HOut(handle_tools_list(r), NoQuery, FALSE)
    [] method = ToolsCall -> handle_tools_call(r, drv)
    [] method = Str(<<"resources/list">>) ->
         HOut(handle_resources_list(r), NoQuery, FALSE)
    [] method = Str(<<"prompts/list">>) ->
         HOut(handle_prompts_list(r), NoQuery, FALSE)
    [] OTHER ->
         HOut([st |-> "unknown",
               frames |-> send_error_response(r, MethodNotFound,
                                              "Method {} not found.", method)],
              NoQuery, FALSE)

\* the end of the try block once the request v is dispatched with outcome h:
\* continue after an unknown method, propagate a raise, print a response
\* (lines 201-207)
AfterDispatch(v, h) ==
  CASE h.o.st = "unknown" ->
         TOut("continue", v, h.o.frames, NoExc, h.q, h.called)
    [] h.o.st = "raise" -> TOut("raise", v, <<>>, h.o, h.q, h.called)
    [] h.o.st = "ret" -> TOut("print", v, <<h.o.v>>, NoExc, h.q, h.called)

\* the try block (lines 165-207); r0 is req on entry
TryBlock(l, drv, r0) ==
  CASE l.kind = "readfault" ->
         TOut("raise", r0, <<>>,
              Raise("UnicodeDecodeError", <<"invalid start byte">>),
              NoQuery, FALSE)
    [] l.kind = "eof" -> TOut("break", r0, <<>>, NoExc, NoQuery, FALSE)
    [] l.kind = "blank" -> TOut("continue", r0, <<>>, NoExc, NoQuery, FALSE)
    [] l.kind = "badjson" ->
         TOut("raise", r0, <<>>,
              Raise("JSONDecodeError", <<"Expecting value">>), NoQuery, FALSE)
    [] l.kind = "parsefault" ->
         TOut("raise", r0, <<>>,
              Raise("RecursionError", <<"maximum recursion depth exceeded">>),
              NoQuery, FALSE)
    [] l.kind = "json" ->
         IF ~IsDict(l.val)
           THEN TOut("raise", l.val, <<>>, NoGet, NoQuery, FALSE)
           ELSE AfterDispatch(l.val, Dispatch(l.val, drv))

\* variant: the handler leaves the loop after reporting the parse error
OnJSONDecodeError_Break(r) == [frames |-> <<ParseErrorFrame>>, pc |-> "done"]

\* except json.JSONDecodeError (lines 209-216): frames printed, next pc
OnJSONDecodeError(r) == [frames |-> <<ParseErrorFrame>>, pc |-> "loop"]

\* variant: the handler always reports id null
OnException_NullId(r, e) ==
  IF r = Unbound
    THEN [frames |-> <<>>, pc |-> "crashed"]
    ELSE [frames |-> << ErrorFrame(Null, InternalError, "Internal error: ",
                                   Str(e.text)) >>,
          pc |-> "loop"]

\* except Exception (lines 217-225): r is req when the handler runs
OnException(r, e) ==
  IF r = Unbound
    \* the handler reads the unassigned local req: UnboundLocalError leaves
    \* main()
    THEN [frames |-> <<>>, pc |-> "crashed"]
    ELSE [frames |-> << ErrorFrame(IF IsDict(r) THEN Get(r, "id", Null)
                                                ELSE Null,
                                   InternalError, "Internal error: ",
                                   Str(e.text)) >>,
          pc |-> "loop"]

\* the except clauses and the loop control applied to the outcome t of the
\* try block (lines 169, 209-225)
Finish(t) ==
  LET h == CASE t.st = "raise" /\ t.exc.type = "JSONDecodeError" ->
                  OnJSONDecodeError(t.req)
             [] t.st = "raise" /\ t.exc.type # "JSONDecodeError" ->
                  OnException(t.req, t.exc)
             [] t.st = "break" -> [frames |-> <<>>, pc |-> "done"]
             [] OTHER -> [frames |-> t.frames, pc |-> "loop"]
  IN [pc |-> h.pc, req |-> t.req, frames |-> h.frames, exc |-> t.exc,
      q |-> t.q, called |-> t.called]

\* one whole iteration of while True
LoopBody(l, drv, r0) == Finish(TryBlock(l, drv, r0))

\* variant: the new frames land ahead of the frames already written
Write_Front(o, frames) == frames \o o

\* print(json.dumps(...), flush=True): the frames reach standard output at
\* once, after everything written before (lines 157, 206, 216, 225)
Write(o, frames) == o \o frames

\* mcp_server2.py is not running
ServerOff ==
  /\ sphase = "off"
  /\ catalog = <<>>
  /\ schema_cache = <<>>
  /\ snapshot = <<>>
  /\ pool = <<>>
  /\ tasks = <<>>

\* query_tool.py before its first line is read, no executor called
LoopStart ==
  /\ pc = "loop"
  /\ req = Unbound
  /\ out = <<>>
  /\ openConns = 0
  /\ nread = 0
  /\ line = NoLine
  /\ prevKind = "none"
  /\ mark = 0
  /\ exc = NoExc
  /\ called = FALSE
  /\ drvUsed = NoDriver
  /\ qres = NoQuery
  /\ hist = <<>>
  /\ xcall = [who |-> "none"]

Init == LoopStart /\ ServerOff

Iteration(l, drv) ==
  /\ pc = "loop"
  /\ nread < MaxLines
  /\ \E b \in {LoopBody(l, drv, req)} :
       /\ pc' = b.pc
       /\ req' = b.req
       /\ out' = Write(out, b.frames)
       /\ hist' = hist \o b.frames
       /\ openConns' = openConns + b.q.leak
       /\ exc' = b.exc
       /\ called' = b.called
       /\ drvUsed' = IF b.called THEN drv ELSE NoDriver
       /\ qres' = b.q
  /\ nread' = nread + 1
  /\ line' = l
  /\ prevKind' = line.kind
  /\ mark' = Len(out)
  /\ UNCHANGED <<xcall, srvVars>>

Next == \E l \in Lines, drv \in Drivers : Iteration(l, drv)

Spec == Init /\ [][Next]_vars

\* the frames printed by the last iteration
emitted == SubSeq(out, mark + 1, Len(out))

(***************************************************************************)
(* mcp_server2.py: execute_query and the execute_sql tool.  The driver     *)
(* (asyncpg) outcome says whether acquiring the connection or running the  *)
(* statement raises, the rows a fetch returns and the status text an       *)
(* execute returns.                                                        *)
(***************************************************************************)
AsyncRows ==
  { <<>>, <<[c |-> Num(<<"1">>)]>>, <<[c |-> DateTime]>> }
Statuses ==
  { <<>>, <<"BEGIN">>, <<"CREATE", " ", "TABLE">>, <<"UPDATE", " ", "2">>,
    <<"INSERT", " ", "0", " ", "3">>, <<"7">>, <<"DELETE", " ", "12">>,
    <<"UPDATE", " ", "2a">>, <<"EXPLAIN">> }
AsyncDrivers ==
  [fail : {"acquire", "run"}, rows : {<<>>}, status : {<<>>}]
    \cup [fail : {"none"}, rows : AsyncRows, status : {<<>>}]
    \cup [fail : {"none"}, rows : {<<>>}, status : Statuses]

\* str.split(): the tokens between runs of whitespace
Split(s) == SelectSeq(s, LAMBDA k : k # " ")
\* str.isdigit()
IsDigit(k) == k \in {"0", "2", "3", "7", "12"}
\* int(k) for a token of digits
IntOf(k) ==
  CASE k = "0" -> 0 [] k = "2" -> 2 [] k = "3" -> 3 [] k = "7" -> 7
    [] k = "12" -> 12

\* datetime.isoformat()
IsoFormat(d) == Str(<<d.v[1], "T", d.v[2]>>)
\* the row_dict built from one row (lines 133-138)
ConvertRow(r) ==
  [k \in DOMAIN r |-> IF r[k].t = "datetime" THEN IsoFormat(r[k]) ELSE r[k]]

\* variant: a status of a single token is parsed too
RowCount_OneToken(status) ==
  LET parts == Split(status) IN
  IF status # <<>> /\ Len(parts) >= 1 /\ IsDigit(parts[Len(parts)])
    THEN IntOf(parts[Len(parts)])
    ELSE 0

\* the affected-row count parsed from the status text (lines 152-156)
RowCount(status) ==
  LET parts == Split(status) IN
  IF status # <<>> /\ Len(parts) >= 2 /\ IsDigit(parts[Len(parts)])
    THEN IntOf(parts[Len(parts)])
    ELSE 0

\* variant: the failure outcome drops the statement
Failure_NoSql(sql) ==
  [success |-> FALSE, error |-> Str(DriverErr), sql |-> <<>>]

\* the outcome built by the except clause (lines 165-171)
Failure(sql) ==
  [success |-> FALSE, error |-> Str(DriverErr), sql |-> sql]

\* sql is the token sequence of the statement
execute_query(sql, drv) ==
  IF drv.fail = "acquire" THEN Failure(sql)
  ELSE
    LET sql_lower == Lower(Strip(sql)) IN
    IF StartsWith(sql_lower, "select") \/ StartsWith(sql_lower, "with")
      THEN IF drv.fail = "run" THEN Failure(sql)
           ELSE LET results == [i \in 1..Len(drv.rows) |->
                                  ConvertRow(drv.rows[i])]
                IN [success |-> TRUE, type |-> "select", rows |-> results,
                    row_count |-> Len(results)]
      ELSE IF drv.fail = "run" THEN Failure(sql)
           ELSE [success |-> TRUE, type |-> "modification",
                 message |-> drv.status,
                 affected_rows |-> RowCount(drv.status)]

\* the statement execute_sql hands to execute_query (lines 180-182)
ExplainRewrite(sql, explain_plan) ==
  IF explain_plan /\ StartsWith(Strip(Lower(sql)), "select")
    THEN <<"EXPLAIN", " ", "ANALYZE", " ">> \o sql
    ELSE sql

\* execute_sql: the statement run, the outcome of execute_query and the kind
\* of response text built from it
execute_sql(sql, explain_plan, drv) ==
  IF Strip(sql) = <<>>
    THEN [run |-> <<>>, q |-> [success |-> FALSE, error |-> Str(<<>>),
                               sql |-> <<>>],
          ran |-> FALSE, response |-> "Error: No SQL query provided"]
    ELSE LET run == ExplainRewrite(sql, explain_plan)
             q == execute_query(run, drv)
         IN [run |-> run, q |-> q, ran |-> TRUE,
             response |->
               IF q.success
                 THEN IF q.type = "select"
                        THEN "Query executed successfully. Returned rows."
                        ELSE "Query executed successfully. Affected rows."
                 ELSE "Query failed"]

(***************************************************************************)
(* mcp_server2.py: the schema cache.  A catalog maps each table of the     *)
(* public schema to its columns, in ordinal order, and to the types of its *)
(* constraints; the introspection query joins the three catalog views on   *)
(* the table name.                                                         *)
(***************************************************************************)
\* most columns and most constraints of one table
MaxCols == 2
MaxCons == 2

TableNames == {"a", "b"}
\* the tables in the order of ORDER BY t.table_name
TableOrder == <<"a", "b">>
ColumnNames == {"x", "y"}
ConstraintTypes == {"PRIMARY KEY", "UNIQUE"}
ColSeqs ==
  { c \in UNION { [1..n -> ColumnNames] : n \in 0..MaxCols } :
      \A i, j \in 1..Len(c) : c[i] = c[j] => i = j }
\* a table has at most one primary key
ConSeqs ==
  { c \in UNION { [1..n -> ConstraintTypes] : n \in 0..MaxCons } :
      \A i, j \in 1..Len(c) : c[i] = "PRIMARY KEY" /\ c[j] = c[i] => i = j }
TableDefs == [cols : ColSeqs, cons : ConSeqs]
Catalogs == UNION { [T -> TableDefs] : T \in SUBSET TableNames }

\* the columns view's data_type, is_nullable and column_default of a column
DataType(c) == IF c = "x" THEN "integer" ELSE "text"
IsNullable(c) == IF c = "x" THEN "NO" ELSE "YES"
ColumnDefault(c) == IF c = "x" THEN Null ELSE Str(<<"''">>)

\* one row of the join: table t, its k-th (column, constraint) pair; a table
\* without columns or without constraints joins to NULL (LEFT JOIN)
JoinRow(t, d, k) ==
  LET nc == IF d.cons = <<>> THEN 1 ELSE Len(d.cons)
      ci == ((k - 1) \div nc) + 1
      ki == ((k - 1) % nc) + 1
  IN [table_name |-> t,
      column_name |-> IF d.cols = <<>> THEN Null ELSE Str(<<d.cols[ci]>>),
      data_type |-> IF d.cols = <<>> THEN Null
                    ELSE Str(<<DataType(d.cols[ci])>>),
      is_nullable |-> IF d.cols = <<>> THEN Null
                      ELSE Str(<<IsNullable(d.cols[ci])>>),
      column_default |-> IF d.cols = <<>> THEN Null
                         ELSE ColumnDefault(d.cols[ci]),
      constraint_type |-> IF d.cons = <<>> THEN Null ELSE Str(<<d.cons[ki]>>)]

\* the rows of one table, ordered by ordinal_position
TableRows(t, d) ==
  [k \in 1..((IF d.cols = <<>> THEN 1 ELSE Len(d.cols))
               * (IF d.cons = <<>> THEN 1 ELSE Len(d.cons))) |->
     JoinRow(t, d, k)]

\* the result of the introspection query (lines 66-81)
RECURSIVE IntrospectFrom(_, _)
IntrospectFrom(cat, i) ==
  IF i > Len(TableOrder) THEN <<>>
  ELSE (IF TableOrder[i] \in DOMAIN cat
          THEN TableRows(TableOrder[i], cat[TableOrder[i]])
          ELSE <<>>) \o IntrospectFrom(cat, i + 1)
Introspect(cat) == IntrospectFrom(cat, 1)

EmptyTableInfo == [columns |-> <<>>, constraints |-> <<>>]
ColumnInfo(row) ==
  [name |-> row.column_name, type |-> row.data_type,
   nullable |-> (row.is_nullable = Str(<<"YES">>)),
   default |-> row.column_default]

\* the table's entry after one row (lines 91-100)
AddRow(info, row) ==
  [columns |-> IF Truthy(row.column_name)
                 THEN Append(info.columns, ColumnInfo(row))
                 ELSE info.columns,
   constraints |-> IF Truthy(row.constraint_type)
                     THEN Append(info.constraints, row.constraint_type)
                     ELSE info.constraints]

\* the body of the loop over the rows (lines 83-100)
CacheRow(cache, row) ==
  [t \in DOMAIN cache \cup {row.table_name} |->
     IF t = row.table_name
       THEN AddRow(IF t \in DOMAIN cache THEN cache[t] ELSE EmptyTableInfo,
                   row)
       ELSE cache[t]]

RECURSIVE CacheRows(_, _, _)
CacheRows(cache, rows, i) ==
  IF i > Len(rows) THEN cache
  ELSE CacheRows(CacheRow(cache, rows[i]), rows, i + 1)

\* how the introspection can go: acquiring the connection or the fetch raises
CacheDrivers == {"acquire", "run", "none"}

\* schema_cache after cache_schema_info; an exception is logged and swallowed
\* (lines 103-104)
cache_schema_info(cache, cat, fail) ==
  IF fail # "none" THEN cache ELSE CacheRows(cache, Introspect(cat), 1)

\* variant: a table that is not cached gets an empty entry when it is read
get_schema_Insert(cache, table_name) ==
  IF Truthy(table_name)
    THEN [response |-> [table |-> table_name,
                        info |-> IF table_name.v[1] \in DOMAIN cache
                                   THEN <<cache[table_name.v[1]]>>
                                   ELSE <<EmptyTableInfo>>],
          cache |-> [t \in DOMAIN cache \cup {table_name.v[1]} |->
                       IF t \in DOMAIN cache THEN cache[t]
                       ELSE EmptyTableInfo]]
    ELSE [response |-> [table |-> Null, info |-> <<cache>>], cache |-> cache]

\* get_schema: the response and schema_cache afterwards (lines 213-229); the
\* response lists the entry of the table, nothing for a table that is not
\* cached, the whole cache when no table is named
get_schema(cache, table_name) ==
  IF Truthy(table_name)
    THEN [response |-> [table |-> table_name,
                        info |-> IF table_name.v[1] \in DOMAIN cache
                                   THEN <<cache[table_name.v[1]]>>
                                   ELSE <<>>],
          cache |-> cache]
    ELSE [response |-> [table |-> Null, info |-> <<cache>>], cache |-> cache]

\* one line of the schema context (lines 113-115)
ContextLine(col) ==
  [name |-> col.name, type |-> col.type,
   nullable |-> IF col.nullable THEN "NULL" ELSE "NOT NULL",
   default |-> IF Truthy(col.default) THEN <<" DEFAULT ", col.default>>
               ELSE <<>>]

\* get_schema_context (lines 106-116)
get_schema_context(cache) ==
  [t \in DOMAIN cache |->
     [i \in 1..Len(cache[t].columns) |-> ContextLine(cache[t].columns[i])]]

\* natural_language_query: the response and schema_cache afterwards (lines
\* 232-251)
natural_language_query(cache, question) ==
  IF Strip(question) = <<>>
    THEN [response |-> [error |-> "Error: No question provided"],
          cache |-> cache]
    ELSE [response |-> [question |-> question,
                        ntables |-> Cardinality(DOMAIN cache),
                        tables |-> DOMAIN cache,
                        context |-> get_schema_context(cache)],
          cache |-> cache]

(***************************************************************************)
(* The two query executors called directly on bounded SQL texts.           *)
(***************************************************************************)
Tokens == {" ", "SELECT", "select", "With", "insert"}
SqlTexts == UNION { [1..n -> Tokens] : n \in 0..MaxSqlLen }

\* query_db is reached only with a non-empty statement (line 113); the
\* executors keep no state between calls, so a run makes one call
CallQueryDb(sql, drv) ==
  /\ xcall.who = "none"
  /\ sql # <<>>
  /\ xcall' = [who |-> "query_db", sql |-> sql, drv |-> drv,
               q |-> query_db(Str(sql), drv)]
  /\ UNCHANGED <<loopVars, srvVars>>

CallExecuteSql(sql, explain_plan, drv) ==
  /\ xcall.who = "none"
  /\ xcall' = [who |-> "execute_sql", sql |-> sql, explain |-> explain_plan,
               drv |-> drv, r |-> execute_sql(sql, explain_plan, drv)]
  /\ UNCHANGED <<loopVars, srvVars>>

\* cache_schema_info runs once, at startup, on the empty cache (line 36)
CallCacheSchemaInfo(cat, fail) ==
  /\ xcall.who = "none"
  /\ xcall' = [who |-> "cache_schema_info", catalog |-> cat, fail |-> fail,
               cache |-> cache_schema_info(<<>>, cat, fail)]
  /\ UNCHANGED <<loopVars, srvVars>>

NextExec ==
  \/ \E sql \in SqlTexts, drv \in Drivers : CallQueryDb(sql, drv)
  \/ \E sql \in SqlTexts, e \in BOOLEAN, drv \in AsyncDrivers :
       CallExecuteSql(sql, e, drv)
  \/ \E cat \in Catalogs, fail \in CacheDrivers :
       CallCacheSchemaInfo(cat, fail)

SpecExec == Init /\ [][NextExec]_vars

(***************************************************************************)
(* mcp_server2.py: the running server.  initialize_database creates the    *)
(* pool and fills schema_cache; then tool calls run as concurrent tasks on *)
(* one event loop.  A task changes position only at an await: acquiring a  *)
(* connection, the statement finishing, releasing the connection.          *)
(* get_schema and natural_language_query await nothing and run in one      *)
(* step.  The database answers a statement with rows or a status that      *)
(* mention the number written in the statement, so the answers to          *)
(* different statements differ.                                            *)
(***************************************************************************)
TaskIds == 1..NTasks
Slots == 1..PoolSize
\* the number written in the statement of each task
StmtNumbers == <<"2", "3", "7", "12", "0">>

NoCall == [tool |-> "none"]
NoRes == [response |-> "none"]
IdleTask == [pc |-> "idle", call |-> NoCall, slot |-> 0, res |-> NoRes]
FreeConn == [holder |-> 0, stmt |-> <<>>]

\* the schema of the database when the server starts
ServerCatalog == [t \in {"a"} |-> [cols |-> <<"x">>, cons |-> <<"PRIMARY KEY">>]]

\* a statement that alters the schema
IsDdl(stmt) == stmt # <<>> /\ Head(stmt) = "alter"
\* the schema after a statement that alters it: table "a" gains column "y"
ApplyDdl(cat) ==
  [cat EXCEPT !["a"].cols =
     IF \E i \in 1..Len(@) : @[i] = "y" THEN @ ELSE Append(@, "y")]

\* what the database returns for a statement run on a connection
DbRows(stmt) ==
  IF stmt = <<>> THEN <<>> ELSE <<[c |-> Num(<<stmt[Len(stmt)]>>)]>>
DbStatus(stmt) ==
  IF IsDdl(stmt) THEN <<"ALTER", " ", "TABLE">>
  ELSE <<"INSERT", " ", "0", " ", stmt[Len(stmt)]>>

SelectCall(t) ==
  [tool |-> "execute_sql", sql |-> <<"select", " ", StmtNumbers[t]>>,
   explain_plan |-> FALSE]
InsertCall(t) ==
  [tool |-> "execute_sql", sql |-> <<"insert", " ", StmtNumbers[t]>>,
   explain_plan |-> FALSE]
AlterCall(t) ==
  [tool |-> "execute_sql", sql |-> <<"alter", " ", StmtNumbers[t]>>,
   explain_plan |-> FALSE]
SchemaCalls ==
  [tool : {"get_schema"}, table_name : {Null, Str(<<"a">>), Str(<<"b">>)}]
QuestionCalls == [tool : {"natural_language_query"}, question : {<<"q">>}]
ServerCalls(t) ==
  {SelectCall(t), AlterCall(t)} \cup SchemaCalls \cup QuestionCalls

ServerStart ==
  /\ sphase = "init"
  /\ catalog = ServerCatalog
  /\ schema_cache = <<>>
  /\ snapshot = <<>>
  /\ pool = <<>>
  /\ tasks = [t \in TaskIds |-> IdleTask]

InitServer == LoopStart /\ ServerStart

\* initialize_database: create_pool raises, or the pool exists and
\* cache_schema_info has run (it swallows its own failure)
InitializeDatabase(fail) ==
  /\ sphase = "init"
  /\ IF fail = "pool"
       THEN /\ sphase' = "failed"
            /\ UNCHANGED <<schema_cache, snapshot, pool>>
       ELSE /\ sphase' = "serving"
            /\ pool' = [s \in Slots |-> FreeConn]
            /\ schema_cache' = cache_schema_info(schema_cache, catalog, fail)
            /\ snapshot' = schema_cache'
  /\ UNCHANGED <<catalog, tasks, loopVars, xcall>>

\* a tool call arrives: execute_sql runs up to its first await, the two
\* schema tools run to their end
Call(t, c) ==
  /\ sphase = "serving"
  /\ tasks[t].pc = "idle"
  /\ CASE c.tool = "execute_sql" ->
            /\ tasks' = [tasks EXCEPT ![t] =
                 IF Strip(c.sql) = <<>>
                   THEN [pc |-> "done", call |-> c, slot |-> 0,
                         res |-> execute_sql(c.sql, c.explain_plan,
                                             [fail |-> "none", rows |-> <<>>,
                                              status |-> <<>>])]
                   ELSE [pc |-> "waiting", call |-> c, slot |-> 0,
                         res |-> NoRes]]
            /\ UNCHANGED schema_cache
       [] c.tool = "get_schema" ->
            /\ tasks' = [tasks EXCEPT ![t] =
                 [pc |-> "done", call |-> c, slot |-> 0,
                  res |-> get_schema(schema_cache, c.table_name).response]]
            /\ schema_cache' = get_schema(schema_cache, c.table_name).cache
       [] c.tool = "natural_language_query" ->
            /\ tasks' = [tasks EXCEPT ![t] =
                 [pc |-> "done", call |-> c, slot |-> 0,
                  res |-> natural_language_query(schema_cache,
                                                 c.question).response]]
            /\ schema_cache' =
                 natural_language_query(schema_cache, c.question).cache
  /\ UNCHANGED <<sphase, catalog, snapshot, pool, loopVars, xcall>>

\* variant: the pool hands out a connection that is in use
FreeSlots_All(p) == DOMAIN p

\* the connections of the pool nobody holds
FreeSlots(p) == { s \in DOMAIN p : p[s].holder = 0 }

\* db_pool.acquire() returns a free connection (it waits while there is
\* none) and the statement is sent on it
Acquire(t) ==
  /\ tasks[t].pc = "waiting"
  /\ \E s \in FreeSlots(pool) :
       /\ pool' = [pool EXCEPT ![s] =
            [holder |-> t,
             stmt |-> ExplainRewrite(tasks[t].call.sql,
                                     tasks[t].call.explain_plan)]]
       /\ tasks' = [tasks EXCEPT ![t].pc = "running", ![t].slot = s]
  /\ UNCHANGED <<sphase, catalog, schema_cache, snapshot, loopVars, xcall>>

\* db_pool.acquire() raises: no connection is held
AcquireFail(t) ==
  /\ tasks[t].pc = "waiting"
  /\ tasks' = [tasks EXCEPT ![t].pc = "done",
                            ![t].res =
                              execute_sql(tasks[t].call.sql,
                                          tasks[t].call.explain_plan,
                                          [fail |-> "acquire", rows |-> <<>>,
                                           status |-> <<>>])]
  /\ UNCHANGED <<sphase, catalog, schema_cache, snapshot, pool, loopVars,
                 xcall>>

\* variant: every task reads the answer on the first connection
Fetched_Shared(p, s) ==
  [rows |-> DbRows(p[1].stmt), status |-> DbStatus(p[s].stmt)]

\* what conn.fetch / conn.execute return to the task holding connection s
Fetched(p, s) ==
  [rows |-> DbRows(p[s].stmt), status |-> DbStatus(p[s].stmt)]

\* the statement finishes or the driver raises, and execute_query builds its
\* outcome inside the async with block
Complete(t, fail) ==
  /\ tasks[t].pc = "running"
  /\ \E f \in {Fetched(pool, tasks[t].slot)} :
       tasks' = [tasks EXCEPT ![t].pc = "releasing",
                              ![t].res =
                                execute_sql(tasks[t].call.sql,
                                            tasks[t].call.explain_plan,
                                            [fail |-> fail, rows |-> f.rows,
                                             status |-> f.status])]
  /\ catalog' = IF fail = "none" /\ IsDdl(pool[tasks[t].slot].stmt)
                  THEN ApplyDdl(catalog) ELSE catalog
  /\ UNCHANGED <<sphase, schema_cache, snapshot, pool, loopVars, xcall>>

\* the async with block is left, by return or by exception: the connection
\* goes back to the pool
Release(t) ==
  /\ tasks[t].pc = "releasing"
  /\ pool' = [pool EXCEPT ![tasks[t].slot] = FreeConn]
  /\ tasks' = [tasks EXCEPT ![t].pc = "done"]
  /\ UNCHANGED <<sphase, catalog, schema_cache, snapshot, loopVars, xcall>>

NextServer ==
  \/ \E fail \in {"pool"} \cup CacheDrivers : InitializeDatabase(fail)
  \/ \E t \in TaskIds : \E c \in ServerCalls(t) : Call(t, c)
  \/ \E t \in TaskIds : Acquire(t)
  \/ \E t \in TaskIds : AcquireFail(t)
  \/ \E t \in TaskIds, fail \in {"run", "none"} : Complete(t, fail)
  \/ \E t \in TaskIds : Release(t)

SpecServer == InitServer /\ [][NextServer]_vars

(***************************************************************************)
(* NTasks execute_sql calls made at the same moment, each with a statement *)
(* of its own.  The event loop resumes every task that can go on, the      *)
(* database answers every statement, and the pool hands a free connection  *)
(* to a waiting task: weak fairness of the three steps of each task.       *)
(***************************************************************************)
SimulCalls(t) == {SelectCall(t), InsertCall(t)}

ServerBusy ==
  /\ sphase = "serving"
  /\ catalog = ServerCatalog
  /\ schema_cache = cache_schema_info(<<>>, ServerCatalog, "none")
  /\ snapshot = schema_cache
  /\ pool = [s \in Slots |-> FreeConn]
  /\ \E cs \in [TaskIds -> UNION { SimulCalls(t) : t \in TaskIds }] :
       /\ \A t \in TaskIds : cs[t] \in SimulCalls(t)
       /\ tasks = [t \in TaskIds |->
                     [pc |-> "waiting", call |-> cs[t], slot |-> 0,
                      res |-> NoRes]]

InitSimul == LoopStart /\ ServerBusy

NextSimul ==
  \/ \E t \in TaskIds : Acquire(t)
  \/ \E t \in TaskIds : AcquireFail(t)
  \/ \E t \in TaskIds, fail \in {"run", "none"} : Complete(t, fail)
  \/ \E t \in TaskIds : Release(t)

SpecSimul ==
  /\ InitSimul
  /\ [][NextSimul]_vars
  /\ \A t \in TaskIds :
       /\ WF_vars(Acquire(t))
       /\ WF_vars(\E fail \in {"run", "none"} : Complete(t, fail))
       /\ WF_vars(Release(t))

(***************************************************************************)
(* Properties of query_tool.py, checked under Spec.                        *)
(***************************************************************************)
HasResult(f) == "result" \in DOMAIN f
HasError(f) == "error" \in DOMAIN f
\* the last line read parsed to a JSON object
IsObjectLine == line.kind = "json" /\ IsDict(line.val)
\* ... carrying an id field / a non-null id
LineHasId == IsObjectLine /\ Has(line.val, "id")
LineHasNonNullId == LineHasId /\ line.val.f.id # Null
LineMethod == Get(line.val, "method", Null)
KnownMethods ==
  { Str(<<"initialize">>), Str(<<"tools/list">>), ToolsCall,
    Str(<<"resources/list">>), Str(<<"prompts/list">>) }

\* C1: a line that parses to a JSON object with a non-null id is answered by
\* exactly one frame, whose id is the request's id unchanged, whatever its
\* method and params and whatever was read before it; the loop goes on.
C1_OneFrameWithId ==
  LineHasNonNullId =>
    /\ Len(emitted) = 1
    /\ emitted[1].id = line.val.f.id
    /\ pc = "loop"

\* C1 witness: the second line is a request with the string id "1" whose
\* dispatch raised; its single frame is an internal error carrying "1".
C1_Witness ==
  /\ nread = 2
  /\ LineHasNonNullId
  /\ exc.st = "raise"
  /\ Len(emitted) = 1
  /\ HasError(emitted[1])
  /\ emitted[1].error.code = InternalError
  /\ emitted[1].id = Str(<<"1">>)

\* C2 (as claimed): a JSON object without an id field produces no frame,
\* whatever its method.
C2_NotificationSilent ==
  (IsObjectLine /\ ~Has(line.val, "id")) => emitted = <<>>

\* C3: a line json.loads rejects prints exactly one frame, code -32700 with
\* id null, leaves req and the loop as they were, and the loop keeps reading;
\* a line that parses right after it is answered as it would be answered with
\* nothing read before it.
C3_Step ==
  /\ line'.kind = "badjson" =>
       /\ \E f \in {ParseErrorFrame} :
            /\ out' = Append(out, f)
            /\ f.id = Null
            /\ f.error.code = ParseError
       /\ pc' = "loop"
       /\ req' = req
       /\ openConns' = openConns
  /\ (line.kind = "badjson" /\ line'.kind = "json") =>
       \E drv \in Drivers :
         \E fresh \in {LoopBody(line', drv, Unbound)} :
           /\ out' = out \o fresh.frames
           /\ pc' = fresh.pc
           /\ req' = fresh.req
C3_MalformedLineIsolated == [][C3_Step]_vars

\* C3 witness: a malformed first line answered by the parse error frame,
\* then a request answered by a result frame.
C3_Witness ==
  /\ nread = 2
  /\ prevKind = "badjson"
  /\ LineHasNonNullId
  /\ Len(out) = 2
  /\ out[1].error.code = ParseError
  /\ out[1].id = Null
  /\ HasResult(out[2])
  /\ out[2].id = line.val.f.id

\* C4: a request with a non-null id whose method is none of the five known
\* methods (or is missing) gets exactly one frame: an error with code -32601,
\* the request's id, and no result.
C4_UnknownMethod ==
  (LineHasNonNullId /\ LineMethod \notin KnownMethods) =>
    /\ Len(emitted) = 1
    /\ HasError(emitted[1])
    /\ ~HasResult(emitted[1])
    /\ emitted[1].error.code = MethodNotFound
    /\ emitted[1].id = line.val.f.id

\* C4 witness: a request with an id and no method field, answered -32601.
C4_Witness ==
  /\ LineHasNonNullId
  /\ ~Has(line.val, "method")
  /\ Len(emitted) = 1
  /\ HasError(emitted[1])
  /\ emitted[1].error.code = MethodNotFound

\* what the claim C5 calls params.name and the sql argument of a request
ClaimedName ==
  LET p == Get(line.val, "params", Null) IN
  IF IsDict(p) THEN Get(p, "name", Null) ELSE Null
ClaimedSql ==
  LET p == Get(line.val, "params", Null)
      a == IF IsDict(p) THEN Get(p, "arguments", Null) ELSE Null
  IN IF IsDict(a) THEN Get(a, "sql", Null) ELSE Null
IsInvalidParams(fs) ==
  /\ Len(fs) = 1
  /\ HasError(fs[1])
  /\ fs[1].error.code = InvalidParams

\* C5 (as claimed): a tools/call request with an id is answered -32602 when
\* params.name is not the known tool, -32602 when the sql argument is missing
\* in any form, and only otherwise reaches query_db.
C5_ToolsCallValidation ==
  (LineHasId /\ LineMethod = ToolsCall) =>
    IF ClaimedName # ToolName
      THEN IsInvalidParams(emitted) /\ ~called
    ELSE IF ClaimedSql \in {Null, Str(<<>>)}
      THEN IsInvalidParams(emitted) /\ ~called
    ELSE /\ called
         /\ Len(emitted) = 1
         /\ \/ HasResult(emitted[1]) /\ "content" \in DOMAIN emitted[1].result
            \/ HasError(emitted[1]) /\ emitted[1].error.code = DatabaseError

\* C6 (as claimed): an exception other than a JSON decode error is reported
\* in its own iteration by one -32603 frame with the request's id or null,
\* the process never crashes, and the loop ends only at end of input.
C6_InternalErrorCaught ==
  /\ pc # "crashed"
  /\ pc = "done" => line.kind = "eof"
  /\ (exc.st = "raise" /\ exc.type # "JSONDecodeError") =>
       /\ Len(emitted) = 1
       /\ HasError(emitted[1])
       /\ emitted[1].error.code = InternalError
       /\ emitted[1].id = (IF LineHasId THEN line.val.f.id ELSE Null)

\* C7: every frame on standard output has exactly one of result and error.
C7_ResultXorError ==
  \A i \in 1..Len(out) : HasResult(out[i]) # HasError(out[i])

\* C7 witness: a result frame followed by the frame of a tools/call whose
\* statement ran in query_db.
C7_Witness ==
  /\ Len(out) = 2
  /\ HasResult(out[1])
  /\ called
  /\ qres.ran
  /\ HasResult(out[2])
  /\ "content" \in DOMAIN out[2].result

\* the last line is a tools/call with an id whose statement the driver failed
DatabaseFailed ==
  /\ LineHasId
  /\ called
  /\ drvUsed.fail \in {"connect", "execute", "finish"}
  /\ ClaimedSql.t = "str"

\* C8: a tools/call with an id whose statement fails in the database gets
\* exactly one error frame, code -32001, whose message carries the driver's
\* error text; the loop goes on.
C8_DatabaseFailure ==
  DatabaseFailed =>
    /\ Len(emitted) = 1
    /\ HasError(emitted[1])
    /\ ~HasResult(emitted[1])
    /\ emitted[1].error.code = DatabaseError
    /\ emitted[1].error.message.arg = Str(DriverErr)
    /\ emitted[1].id = line.val.f.id
    /\ pc = "loop"

\* C8 witness: two lines in a row whose statements failed in the driver, the
\* second at execute, each answered -32001.
C8_Witness ==
  /\ DatabaseFailed
  /\ drvUsed.fail = "execute"
  /\ Len(out) = 2
  /\ HasError(out[1]) /\ out[1].error.code = DatabaseError
  /\ HasError(out[2]) /\ out[2].error.code = DatabaseError
  /\ out[2].error.message.arg = Str(DriverErr)

\* C9 (as claimed): no connection opened by query_db is left open.
C9_NoOpenConnection == openConns = 0

(***************************************************************************)
(* Properties of the two query executors, checked under SpecExec.          *)
(***************************************************************************)
\* the leading keyword of the trimmed, case-folded statement
LeadingKeyword(sql) ==
  LET s == Lower(Strip(sql)) IN IF s = <<>> THEN "" ELSE Head(s)
ReadKeywords == {"select", "with"}

\* C10 (as claimed): in query_db and in execute_query alike, a statement that
\* the driver ran takes the Rows path exactly when its leading keyword is
\* select or with, and the Modification path otherwise.
C10_TagByLeadingKeyword ==
  /\ (xcall.who = "query_db" /\ Has(xcall.q.res, "result")) =>
       (xcall.q.res.f.result.t = "list"
          <=> LeadingKeyword(xcall.sql) \in ReadKeywords)
  /\ (xcall.who = "execute_sql" /\ xcall.r.ran /\ xcall.r.q.success) =>
       /\ xcall.r.q.type \in {"select", "modification"}
       /\ xcall.r.q.type = "select"
            <=> LeadingKeyword(xcall.r.run) \in ReadKeywords

(***************************************************************************)
(* Further properties of query_tool.py, checked under Spec.                *)
(***************************************************************************)
\* C16: the loop is serialized: whenever the loop is about to read a line,
\* standard output holds exactly the frames of the lines read so far, in the
\* order of those lines, and reading one more line only appends to it.
C16_Step ==
  /\ out = hist
  /\ out' = hist'
  /\ Len(out') >= Len(out)
  /\ SubSeq(out', 1, Len(out)) = out
C17_ExecutedIsAnswered ==
  /\ qres.ran =>
       /\ Len(emitted) = 1
       /\ HasResult(emitted[1])
       /\ emitted[1].result.content[1].text = Dumps(qres.res.f.result)
  /\ \A i \in 1..Len(emitted) :
       (HasError(emitted[i]) /\ emitted[i].error.code # DatabaseError)
         => ~qres.ran

\* C18 (as claimed): a -32603 frame carries the id of the line of the current
\* iteration or null, never the id of a request parsed earlier.
C18_NoStaleId ==
  \A i \in 1..Len(emitted) :
    (HasError(emitted[i]) /\ emitted[i].error.code = InternalError) =>
      \/ emitted[i].id = Null
      \/ LineHasId /\ emitted[i].id = line.val.f.id

(***************************************************************************)
(* Properties of mcp_server2.py, checked under SpecExec.                   *)
(***************************************************************************)
\* the last call was execute_sql and it reached execute_query
ExecuteSqlRan == xcall.who = "execute_sql" /\ xcall.r.ran
\* ... and the pool or the driver raised
ExecuteSqlFailed == ExecuteSqlRan /\ xcall.drv.fail \in {"acquire", "run"}
\* ... with the explain flag on a statement whose leading keyword is select
ExplainedSelect ==
  ExecuteSqlRan /\ xcall.explain /\ LeadingKeyword(xcall.sql) = "select"

\* C13 (as claimed): when the pool or the driver raises, execute_query returns
\* a Failure with the driver's error text and the SQL text the caller
\* submitted to execute_sql, for every statement and explain_plan flag.
C13_FailureCarriesSubmittedSql ==
  ExecuteSqlFailed =>
    /\ xcall.r.q.success = FALSE
    /\ xcall.r.q.error = Str(DriverErr)
    /\ xcall.r.q.sql = xcall.sql

\* C13 (amended): when the pool or the driver raises, execute_query returns a
\* Failure with the driver's error text and the SQL text it was given: the
\* caller's statement, prefixed with EXPLAIN ANALYZE when explain_plan is set
\* and the statement's leading keyword is select.
C13_FailureCarriesRunSql ==
  ExecuteSqlFailed =>
    /\ xcall.r.q.success = FALSE
    /\ xcall.r.q.error = Str(DriverErr)
    /\ xcall.r.q.sql = (IF ExplainedSelect
                          THEN <<"EXPLAIN", " ", "ANALYZE", " ">> \o xcall.sql
                          ELSE xcall.sql)
    /\ xcall.r.response = "Query failed"

\* C13 witness: the driver raises on an explained select.
C13_Witness ==
  /\ ExecuteSqlFailed
  /\ ExplainedSelect
  /\ xcall.drv.fail = "run"
  /\ xcall.r.q.success = FALSE
  /\ xcall.r.q.sql # xcall.sql

\* the decimal numbers among the status tokens, and their values
DecimalValue == [k \in {"0", "2", "3", "7", "12"} |-> IntOf(k)]
\* the last call took the modification path and the driver did not raise
Modified ==
  /\ ExecuteSqlRan
  /\ xcall.drv.fail = "none"
  /\ LeadingKeyword(xcall.r.run) \notin ReadKeywords

\* C15: on the modification path the outcome is a success whose affected_rows
\* is the decimal number ending a status text of at least two tokens, and 0
\* for a missing status, a status of one token or a non-numeric last token.
C15_AffectedRows ==
  Modified =>
    LET toks == SelectSeq(xcall.drv.status, LAMBDA k : k # " ") IN
    /\ xcall.r.q.success
    /\ xcall.r.q.type = "modification"
    /\ xcall.r.q.affected_rows =
         (IF Len(toks) >= 2 /\ toks[Len(toks)] \in DOMAIN DecimalValue
            THEN DecimalValue[toks[Len(toks)]]
            ELSE 0)

\* C15 witness: the status INSERT 0 3 gives 3 affected rows.
C15_Witness ==
  /\ Modified
  /\ xcall.drv.status = <<"INSERT", " ", "0", " ", "3">>
  /\ xcall.r.q.affected_rows = 3

\* C19 (as claimed): execute_sql with explain_plan on a select statement
\* still yields a 'select' outcome, the same tag as without the flag.
C19_ExplainKeepsTag ==
  (ExplainedSelect /\ xcall.r.q.success) =>
    /\ xcall.r.q.type = "select"
    /\ \A d \in AsyncDrivers :
         execute_sql(xcall.sql, FALSE, d).q.success =>
           execute_sql(xcall.sql, FALSE, d).q.type = xcall.r.q.type

\* the names of the cached columns of table t
CachedColumnNames(t) ==
  [i \in 1..Len(xcall.cache[t].columns) |-> xcall.cache[t].columns[i].name.v[1]]

\* C20 (as claimed): once cache_schema_info has processed the rows, every
\* table's columns hold one entry per column, in ordinal order, whatever the
\* number of its constraints.
C20_OneEntryPerColumn ==
  (xcall.who = "cache_schema_info" /\ xcall.fail = "none") =>
    \A t \in DOMAIN xcall.catalog :
      /\ t \in DOMAIN xcall.cache
      /\ CachedColumnNames(t) = xcall.catalog[t].cols

(***************************************************************************)
(* Claims about the running server of mcp_server2.py.                      *)
(***************************************************************************)
\* task t is inside the async with block of execute_query
Holding(t) == tasks[t].pc \in {"running", "releasing"}
\* the connections of the pool held by task t
HeldBy(t) == { s \in DOMAIN pool : pool[s].holder = t }
TaskDone(t) == tasks[t].pc = "done"
\* task t ran a statement and execute_query returned a success outcome
Succeeded(t) ==
  /\ tasks[t].call.tool = "execute_sql"
  /\ tasks[t].res.ran
  /\ tasks[t].res.q.success

\* C11: whatever the interleaving of the concurrent executions, an execution
\* between acquiring and releasing holds exactly the one connection it
\* acquired, an execution that is waiting or has ended (by success or by a
\* failure of the driver) holds none, two executions never hold the same
\* connection, and no more connections are held than the pool has.
C11_PoolSlots ==
  sphase = "serving" =>
    /\ \A t \in TaskIds :
         HeldBy(t) = IF Holding(t) THEN {tasks[t].slot} ELSE {}
    /\ \A t, u \in TaskIds :
         Holding(t) /\ Holding(u) /\ t # u => tasks[t].slot # tasks[u].slot
    /\ Cardinality({ t \in TaskIds : Holding(t) }) <= PoolSize

\* an execution whose statement failed has ended and given back its
\* connection, and another execution now holds that same connection
C11_Witness ==
  /\ sphase = "serving"
  /\ \E t, u \in TaskIds :
       /\ TaskDone(t)
       /\ tasks[t].call.tool = "execute_sql"
       /\ tasks[t].slot # 0
       /\ ~tasks[t].res.q.success
       /\ HeldBy(t) = {}
       /\ Holding(u)
       /\ tasks[u].slot = tasks[t].slot

\* the outcome of a finished call is built from the answer to its own
\* statement
OwnOutcome(t) ==
  IF tasks[t].res.q.type = "select"
    THEN tasks[t].res.q.rows = <<[c |-> Num(<<StmtNumbers[t]>>)]>>
    ELSE /\ tasks[t].res.q.message =
              <<"INSERT", " ", "0", " ", StmtNumbers[t]>>
         /\ tasks[t].res.q.affected_rows = DecimalValue[StmtNumbers[t]]

\* C12: when NTasks execute_sql calls with statements of their own run at
\* once over PoolSize connections (NTasks > PoolSize), the successful
\* outcome of each call holds the rows or the status of its own statement
\* and of no other, and eventually every call has completed.
C12_EachCompletesWithOwnRows ==
  /\ [](\A t \in TaskIds : TaskDone(t) /\ Succeeded(t) => OwnOutcome(t))
  /\ <>[](\A t \in TaskIds : TaskDone(t))

\* every call has completed, and two of them read their rows one after the
\* other on the same connection
C12_Witness ==
  /\ sphase = "serving"
  /\ \A t \in TaskIds : TaskDone(t)
  /\ \E t, u \in TaskIds :
       /\ t # u
       /\ Succeeded(t) /\ Succeeded(u)
       /\ tasks[t].res.q.type = "select" /\ tasks[u].res.q.type = "select"
       /\ tasks[t].slot = tasks[u].slot
       /\ tasks[t].res.q.rows # tasks[u].res.q.rows

\* C14: once initialize_database has completed, schema_cache equals the
\* snapshot taken at startup, whatever execute_sql, get_schema and
\* natural_language_query calls have run since.
C14_CacheFrozen == sphase = "serving" => schema_cache = snapshot

\* a statement has altered the schema of the database, get_schema was asked
\* for a table that is not cached, natural_language_query has answered, and
\* the cache is the startup snapshot, now out of date
C14_Witness ==
  /\ sphase = "serving"
  /\ snapshot # <<>>
  /\ schema_cache = snapshot
  /\ catalog # ServerCatalog
  /\ schema_cache # cache_schema_info(<<>>, catalog, "none")
  /\ \E t, u \in TaskIds :
       /\ TaskDone(t) /\ tasks[t].call.tool = "get_schema"
       /\ tasks[t].call.table_name = Str(<<"b">>)
       /\ TaskDone(u) /\ tasks[u].call.tool = "natural_language_query"

====
